---- MODULE Spec2Model ----
(***************************************************************************)
(* Model of python/summarize_sgfs.py: the GameResultSummary class.         *)
(*                                                                         *)
(* Conventions.                                                            *)
(*   - A path is a sequence of one-character strings, so that              *)
(*     str.split("."), str.lower() and os.path.join are computed.          *)
(*   - A game record is the result of sgfmill's parse of one payload:      *)
(*     ok = FALSE when Sgf_game.from_bytes raises ValueError.              *)
(*   - komi is kept in tenths of a point (5.5 is 55), handicap None is 0.  *)
(*   - matrix entries are kept doubled (0.5 is 1), so that they stay       *)
(*     integers.                                                           *)
(***************************************************************************)
EXTENDS Integers, Sequences, FiniteSets, TLC

\* ------------------------------------------------------------------ bounds
\* number of public calls made on the one GameResultSummary instance
MaxCalls == 3

\* ------------------------------------------------------------ text helpers
\* str.lower() on one character (only the letters the paths use)
lower(c) ==
  CASE c = "S" -> "s"
    [] c = "G" -> "g"
    [] c = "F" -> "f"
    [] OTHER -> c

\* positions of "." in s
DotPositions(s) == {i \in 1..Len(s) : s[i] = "."}

\* s.split(".")[-1]: what follows the last ".", the whole of s without one
SplitLast(s) ==
  IF DotPositions(s) = {} THEN s
  ELSE LET p == CHOOSE i \in DotPositions(s) : \A j \in DotPositions(s) : j <= i
       IN  SubSeq(s, p + 1, Len(s))

\* file.split(".")[-1].lower()
Extension(s) == [i \in 1..Len(SplitLast(s)) |-> lower(SplitLast(s)[i])]

SGF == <<"s", "g", "f">>
SGFS == <<"s", "g", "f", "s">>

\* os.path.join(a, b) for a relative b
join(a, b) == IF a # <<>> /\ a[Len(a)] = "/" THEN a \o b ELSE a \o <<"/">> \o b

\* -------------------------------------------------------------- file system
\* directory "d", its sub-directory "d/s" and a name that does not exist
DirD == <<"d">>
DirS == <<"d", "/", "s">>
DirX == <<"x">>

NameA == <<"a", ".", "s", "g", "f", "s">>
NameB == <<"b", ".", "s", "g", "f">>
NameN == <<"n", ".", "t", "x", "t">>
NameC == <<"c", ".", "S", "G", "F">>
NameE == <<"e", ".", "s", "g", "f", "s">>
NameF == <<"f", ".", "s", "g", "f", "s">>
NameZ == <<"z", ".", "s", "g", "f">>
NameS == <<"s">>

FileA == join(DirD, NameA)
FileB == join(DirD, NameB)
FileN == join(DirD, NameN)
FileC == join(DirS, NameC)
FileE == join(DirS, NameE)
FileF == join(DirS, NameF)
FileZ == join(DirD, NameZ)

\* "./d/b.sgf", a second spelling of FileB, and "sgf", a file of the working
\* directory whose name has no extension
FileBDot == <<".", "/">> \o FileB
FileNoExt == <<"s", "g", "f">>

\* the file a path names: a leading "./" names the working directory
normpath(path) ==
  IF Len(path) >= 2 /\ path[1] = "." /\ path[2] = "/"
  THEN SubSeq(path, 3, Len(path)) ELSE path

\* the second and third results of os.walk / the entries of os.listdir
filenames(dir) ==
  CASE normpath(dir) = DirD -> {NameA, NameB, NameN}
    [] normpath(dir) = DirS -> {NameC, NameE, NameF}
    [] OTHER -> {}

dirnames(dir) ==
  CASE normpath(dir) = DirD -> {NameS}
    [] OTHER -> {}

listdir(dir) == filenames(dir) \cup dirnames(dir)

\* os.path.isfile
isfile(path) == normpath(path) \in {FileA, FileB, FileN, FileC, FileE, FileF, FileNoExt}

\* os.path.exists
exists(path) == isfile(path) \/ normpath(path) \in {DirD, DirS}

\* os.walk(top): the (dirpath, filenames) pairs of top and everything below
RECURSIVE walk(_)
walk(top) ==
  {<<top, filenames(top)>>} \cup UNION {walk(join(top, n)) : n \in dirnames(top)}

\* ------------------------------------------------------------ game records
NoHandicap == 0

Game(b, w, win, hc, km) ==
  [ok |-> TRUE, pb |-> b, pw |-> w, winner |-> win, handicap |-> hc, komi |-> km]

\* a payload on which sgf.Sgf_game.from_bytes raises
Bad == [ok |-> FALSE, pb |-> "", pw |-> "", winner |-> "none",
        handicap |-> NoHandicap, komi |-> 0]

\* f.readlines() of a batch file, <<f.read()>> of a single file
content(path) ==
  CASE normpath(path) = FileA -> << Game("Alice", "Bob", "b", NoHandicap, 55),
                          Game("Bob", "Alice", "b", NoHandicap, 75),
                          Game("Alice", "Bob", "none", NoHandicap, 65) >>
    [] normpath(path) = FileB -> << Game("Alice", "Bob", "b", NoHandicap, 70) >>
    [] normpath(path) = FileC -> << Game("Bob", "Alice", "w", NoHandicap, 50) >>
    [] normpath(path) = FileE -> << Game("Carol", "Bob", "b", 2, 65),
                          Bad,
                          Game("Bob", "Carol", "w", NoHandicap, 65) >>
    [] normpath(path) = FileF -> << Game("Alice", "Carol", "w", NoHandicap, 65),
                          Game("Carol", "Alice", "none", NoHandicap, 65),
                          Game("Carol", "Bob", "b", NoHandicap, 65),
                          Game("Bob", "Carol", "b", NoHandicap, 65) >>
    [] normpath(path) = FileNoExt -> << Game("Bob", "Alice", "b", NoHandicap, 65) >>
    [] OTHER -> << >>

\* -------------------------------------------------------------------- state
VARIABLES
  results,          \* self.results: (black, white) -> Record
  all_sgfs_files,   \* self._all_sgfs_files
  all_sgf_files,    \* self._all_sgf_files
  new_sgfs_files,   \* self._new_sgfs_files
  new_sgf_files,    \* self._new_sgf_files
  warning,          \* self._warning
  matrix,           \* results_matrix of the last _build_result_matrix that returned
  last,             \* the last public call: its name, arguments and outcome
  lastfold,         \* history: the (file, line) records folded by the last call
  foldlog,          \* history: the (file, line) records folded since __init__ / clear
  scans,            \* history: the add_games calls since __init__ / clear, and
                    \*   whether they were the only calls and named existing directories
  cleared,          \* history: the directories scanned before the last clear
  ncalls            \* number of public calls made

obj == <<results, all_sgfs_files, all_sgf_files, new_sgfs_files, new_sgf_files, warning>>
vars == <<results, all_sgfs_files, all_sgf_files, new_sgfs_files, new_sgf_files, warning,
          matrix, last, lastfold, foldlog, scans, cleared, ncalls>>

\* class Record
Record == [win |-> 0, lost |-> 0, draw |-> 0]

\* the fields __init__ sets
Fresh ==
  [results |-> << >>,
   all_sgfs_files |-> {}, all_sgf_files |-> {},
   new_sgfs_files |-> {}, new_sgf_files |-> {},
   warning |-> FALSE]

\* the instance as one value
Self ==
  [results |-> results,
   all_sgfs_files |-> all_sgfs_files, all_sgf_files |-> all_sgf_files,
   new_sgfs_files |-> new_sgfs_files, new_sgf_files |-> new_sgf_files,
   warning |-> warning]

\* a running call: the instance, what it has folded, whether it has raised
Run(st) == [st |-> st, folded |-> {}, raised |-> FALSE]

\* ------------------------------------------------------------------ folding
\* _add_a_single_sgf_string with komi <= 5.5 for komi < 5.5
add_komi_inclusive(r, f, i) ==
  LET game == content(f)[i]
      key == <<game.pb, game.pw>>
      warn == r.st.warning \/ game.handicap # NoHandicap
                \/ game.komi <= 55 \/ game.komi > 75
      res0 == IF key \in DOMAIN r.st.results THEN r.st.results
              ELSE r.st.results @@ (key :> Record)
      res1 == CASE game.winner = "b" -> [res0 EXCEPT ![key].win = @ + 1]
                [] game.winner = "w" -> [res0 EXCEPT ![key].lost = @ + 1]
                [] OTHER -> [res0 EXCEPT ![key].draw = @ + 1]
  IN  IF ~game.ok THEN [r EXCEPT !.raised = TRUE]
      ELSE [r EXCEPT !.st.warning = warn, !.st.results = res1,
                     !.folded = @ \cup {<<f, i>>}]

\* _add_a_single_sgf_string creating the record of the reverse key as well
add_both_keys(r, f, i) ==
  LET game == content(f)[i]
      key == <<game.pb, game.pw>>
      rev == <<game.pw, game.pb>>
      warn == r.st.warning \/ game.handicap # NoHandicap
                \/ game.komi < 55 \/ game.komi > 75
      res0 == (r.st.results @@ (key :> Record)) @@ (rev :> Record)
      res1 == CASE game.winner = "b" -> [res0 EXCEPT ![key].win = @ + 1]
                [] game.winner = "w" -> [res0 EXCEPT ![key].lost = @ + 1]
                [] OTHER -> [res0 EXCEPT ![key].draw = @ + 1]
  IN  IF ~game.ok THEN [r EXCEPT !.raised = TRUE]
      ELSE [r EXCEPT !.st.warning = warn, !.st.results = res1,
                     !.folded = @ \cup {<<f, i>>}]

\* _add_a_single_sgf_string without the else branch of lines 214-215
add_no_draw(r, f, i) ==
  LET game == content(f)[i]
      key == <<game.pb, game.pw>>
      warn == r.st.warning \/ game.handicap # NoHandicap
                \/ game.komi < 55 \/ game.komi > 75
      res0 == IF key \in DOMAIN r.st.results THEN r.st.results
              ELSE r.st.results @@ (key :> Record)
      res1 == CASE game.winner = "b" -> [res0 EXCEPT ![key].win = @ + 1]
                [] game.winner = "w" -> [res0 EXCEPT ![key].lost = @ + 1]
                [] OTHER -> res0
  IN  IF ~game.ok THEN [r EXCEPT !.raised = TRUE]
      ELSE [r EXCEPT !.st.warning = warn, !.st.results = res1,
                     !.folded = @ \cup {<<f, i>>}]

\* _add_a_single_sgf_string on line i of file f
_add_a_single_sgf_string(r, f, i) ==
  LET game == content(f)[i]
      key == <<game.pb, game.pw>>
      warn == r.st.warning \/ game.handicap # NoHandicap
                \/ game.komi < 55 \/ game.komi > 75
      res0 == IF key \in DOMAIN r.st.results THEN r.st.results
              ELSE r.st.results @@ (key :> Record)
      res1 == CASE game.winner = "b" -> [res0 EXCEPT ![key].win = @ + 1]
                [] game.winner = "w" -> [res0 EXCEPT ![key].lost = @ + 1]
                [] OTHER -> [res0 EXCEPT ![key].draw = @ + 1]
  IN  IF ~game.ok THEN [r EXCEPT !.raised = TRUE]
      ELSE [r EXCEPT !.st.warning = warn, !.st.results = res1,
                     !.folded = @ \cup {<<f, i>>}]

\* the loop over the payloads of one file, from payload i on
RECURSIVE FoldLines(_, _, _)
FoldLines(r, f, i) ==
  IF r.raised \/ i > Len(content(f)) THEN r
  ELSE FoldLines(_add_a_single_sgf_string(r, f, i), f, i + 1)

_add_one_sgfs_file_to_result(r, f) ==
  IF ~exists(f) THEN r ELSE FoldLines(r, f, 1)

_add_one_sgf_file_to_result(r, f) ==
  IF ~exists(f) THEN r ELSE FoldLines(r, f, 1)

\* a for loop over a set of files: every iteration order, stopped by a raise
RECURSIVE FoldSgfs(_, _)
FoldSgfs(r, files) ==
  IF r.raised \/ files = {} THEN {r}
  ELSE UNION {FoldSgfs(_add_one_sgfs_file_to_result(r, f), files \ {f}) : f \in files}

RECURSIVE FoldSgf(_, _)
FoldSgf(r, files) ==
  IF r.raised \/ files = {} THEN {r}
  ELSE UNION {FoldSgf(_add_one_sgf_file_to_result(r, f), files \ {f}) : f \in files}

\* _add_new_games_to_result_dict: the possible outcomes of the two loops
_add_new_games_to_result_dict(st) ==
  UNION {FoldSgf(r, st.new_sgf_files) : r \in FoldSgfs(Run(st), st.new_sgfs_files)}

\* ---------------------------------------------------------------- tracking
\* _files of _add_game_file_names
Files(dir, search_subdir) ==
  IF search_subdir
  THEN UNION {{join(w[1], file) : file \in w[2]} : w \in walk(dir)}
  ELSE {join(dir, file) : file \in listdir(dir)}

\* _add_game_file_names assigning the found sets at lines 129-130
add_names_overwrite(st, dir, search_subdir) ==
  LET found_sgfs == {file \in Files(dir, search_subdir) : Extension(file) = SGFS}
      found_sgf == {file \in Files(dir, search_subdir) : Extension(file) = SGF}
  IN  IF ~exists(dir) THEN st
      ELSE [st EXCEPT !.new_sgfs_files = found_sgfs \ st.all_sgfs_files,
                      !.new_sgf_files = found_sgf \ st.all_sgf_files,
                      !.all_sgfs_files = found_sgfs,
                      !.all_sgf_files = found_sgf]

_add_game_file_names(st, dir, search_subdir) ==
  LET found_sgfs == {file \in Files(dir, search_subdir) : Extension(file) = SGFS}
      found_sgf == {file \in Files(dir, search_subdir) : Extension(file) = SGF}
  IN  IF ~exists(dir) THEN st
      ELSE [st EXCEPT !.new_sgfs_files = found_sgfs \ st.all_sgfs_files,
                      !.new_sgf_files = found_sgf \ st.all_sgf_files,
                      !.all_sgfs_files = st.all_sgfs_files \cup found_sgfs,
                      !.all_sgf_files = st.all_sgf_files \cup found_sgf]

_add_a_game_file_name(st, name) ==
  IF ~isfile(name) THEN st
  ELSE IF Extension(name) = SGF
  THEN IF {name} \ st.all_sgf_files = {}
       THEN [st EXCEPT !.new_sgf_files = {}]
       ELSE [st EXCEPT !.new_sgf_files = {name},
                       !.all_sgf_files = @ \cup {name}]
  ELSE IF Extension(name) = SGFS
  THEN IF {name} \ st.all_sgfs_files = {}
       THEN [st EXCEPT !.new_sgfs_files = {}]
       ELSE [st EXCEPT !.new_sgfs_files = {name},
                       !.all_sgfs_files = @ \cup {name}]
  ELSE st

\* what _add_a_game_file_name prints
Notice(st, name) ==
  IF ~isfile(name) THEN "missing"
  ELSE IF Extension(name) = SGF
  THEN IF name \in st.all_sgf_files THEN "duplicate" ELSE "added"
  ELSE IF Extension(name) = SGFS
  THEN IF name \in st.all_sgfs_files THEN "duplicate" ELSE "added"
  ELSE "unrecognized"

\* the outcomes of the two public ingestion functions
AddGames(st, dir, search_subdir) ==
  _add_new_games_to_result_dict(_add_game_file_names(st, dir, search_subdir))

AddAGameFile(st, name) ==
  _add_new_games_to_result_dict(_add_a_game_file_name(st, name))

\* ---------------------------------------------------------------- reporting
\* pla_names: every name on either side of a key
pla_names(res) == {k[1] : k \in DOMAIN res} \cup {k[2] : k \in DOMAIN res}

\* _build_result_matrix with each draw counted whole
build_draw_whole(res) ==
  LET names == pla_names(res)
      entry(pla1, pla2) ==
        IF pla1 = pla2 THEN 0
        ELSE 2 * res[<<pla1, pla2>>].win + 2 * res[<<pla2, pla1>>].lost
               + 2 * (res[<<pla1, pla2>>].draw + res[<<pla2, pla1>>].draw)
  IN  IF \E pla1, pla2 \in names : pla1 # pla2 /\ <<pla1, pla2>> \notin DOMAIN res
      THEN [raised |-> TRUE, value |-> << >>]
      ELSE [raised |-> FALSE,
            value |-> [p \in names \X names |-> entry(p[1], p[2])]]

\* _build_result_matrix reading pla2_pla1.win for pla2_pla1.lost
build_reverse_win(res) ==
  LET names == pla_names(res)
      entry(pla1, pla2) ==
        IF pla1 = pla2 THEN 0
        ELSE 2 * res[<<pla1, pla2>>].win + 2 * res[<<pla2, pla1>>].win
               + (res[<<pla1, pla2>>].draw + res[<<pla2, pla1>>].draw)
  IN  IF \E pla1, pla2 \in names : pla1 # pla2 /\ <<pla1, pla2>> \notin DOMAIN res
      THEN [raised |-> TRUE, value |-> << >>]
      ELSE [raised |-> FALSE,
            value |-> [p \in names \X names |-> entry(p[1], p[2])]]

\* _build_result_matrix: raised is the KeyError of self.results[(pla1, pla2)];
\* value[<<pla1, pla2>>] is twice the entry of row pla1, column pla2
_build_result_matrix(res) ==
  LET names == pla_names(res)
      entry(pla1, pla2) ==
        IF pla1 = pla2 THEN 0
        ELSE 2 * res[<<pla1, pla2>>].win + 2 * res[<<pla2, pla1>>].lost
               + (res[<<pla1, pla2>>].draw + res[<<pla2, pla1>>].draw)
  IN  IF \E pla1, pla2 \in names : pla1 # pla2 /\ <<pla1, pla2>> \notin DOMAIN res
      THEN [raised |-> TRUE, value |-> << >>]
      ELSE [raised |-> FALSE,
            value |-> [p \in names \X names |-> entry(p[1], p[2])]]

\* print_game_results: the exception it ends with, or "ok"
PrintOutcome(res) ==
  LET m == _build_result_matrix(res)
  IN  IF pla_names(res) = {} THEN "ValueError"         \* max() of an empty set
      ELSE IF m.raised THEN "KeyError"
      ELSE IF \A p \in DOMAIN m.value : m.value[p] = 0
      THEN "ValueError"                                \* math.log10(0)
      ELSE "ok"

\* elo.compute_elos on the observations of the pairs and the centering prior:
\* the estimator returns its report
compute_elos(names) == "ok"

\* _estimate_elo with self.results.get((pla_Balck, pla_White), Record())
estimate_elo_default(res) ==
  LET names == pla_names(res)
      pairs == {p \in names \X names : p[1] # p[2]}
      total(p) == IF p \in DOMAIN res
                  THEN res[p].win + res[p].lost + res[p].draw ELSE 0
  IN  IF \E p \in pairs : total(p) = 0 THEN {"ZeroDivisionError"}
      ELSE {compute_elos(names)}

\* _estimate_elo: the exceptions it can end with, or the estimator's outcome.
\* The pairs are visited in the order of a set, the first failure ends the call.
_estimate_elo(res) ==
  LET names == pla_names(res)
      pairs == {p \in names \X names : p[1] # p[2]}
      missing == {p \in pairs : p \notin DOMAIN res}
      unplayed == {p \in pairs \ missing :
                     res[p].win + res[p].lost + res[p].draw = 0}
  IN  IF missing = {} /\ unplayed = {} THEN {compute_elos(names)}
      ELSE {"KeyError" : p \in missing} \cup {"ZeroDivisionError" : p \in unplayed}

\* ------------------------------------------------------------------ actions
InputDirs == {DirD, DirS, DirX}
InputFiles == {FileA, FileB, FileN, FileC, FileE, FileF, FileZ, FileBDot, FileNoExt}

Install(r) ==
  /\ results' = r.st.results
  /\ all_sgfs_files' = r.st.all_sgfs_files
  /\ all_sgf_files' = r.st.all_sgf_files
  /\ new_sgfs_files' = r.st.new_sgfs_files
  /\ new_sgf_files' = r.st.new_sgf_files
  /\ warning' = r.st.warning
  /\ lastfold' = r.folded
  /\ foldlog' = foldlog \cup r.folded

Call(op, arg, sub, outcome) == [op |-> op, arg |-> arg, sub |-> sub, outcome |-> outcome]

Init ==
  /\ results = Fresh.results
  /\ all_sgfs_files = Fresh.all_sgfs_files
  /\ all_sgf_files = Fresh.all_sgf_files
  /\ new_sgfs_files = Fresh.new_sgfs_files
  /\ new_sgf_files = Fresh.new_sgf_files
  /\ warning = Fresh.warning
  /\ matrix = << >>
  /\ last = Call("__init__", << >>, FALSE, "ok")
  /\ lastfold = {}
  /\ foldlog = {}
  /\ scans = [pure |-> TRUE, calls |-> << >>]
  /\ cleared = {}
  /\ ncalls = 0

add_games ==
  /\ ncalls < MaxCalls
  /\ \E dir \in InputDirs, search_subdir \in BOOLEAN :
       \E r \in AddGames(Self, dir, search_subdir) :
         /\ Install(r)
         /\ last' = Call("add_games", dir, search_subdir,
                         IF ~exists(dir) THEN "missing"
                         ELSE IF r.raised THEN "ValueError" ELSE "ok")
         /\ scans' = IF exists(dir)
                     THEN [scans EXCEPT !.calls = Append(@, <<dir, search_subdir>>)]
                     ELSE [scans EXCEPT !.pure = FALSE]
  /\ ncalls' = ncalls + 1
  /\ UNCHANGED <<matrix, cleared>>

add_a_game_file ==
  /\ ncalls < MaxCalls
  /\ \E name \in InputFiles :
       \E r \in AddAGameFile(Self, name) :
         /\ Install(r)
         /\ last' = Call("add_a_game_file", name, FALSE,
                         IF r.raised THEN "ValueError" ELSE Notice(Self, name))
  /\ scans' = [scans EXCEPT !.pure = FALSE]
  /\ ncalls' = ncalls + 1
  /\ UNCHANGED <<matrix, cleared>>

\* clear as it would be without line 80
clear_keeps_warning ==
  /\ ncalls < MaxCalls
  /\ results' = << >>
  /\ all_sgfs_files' = {}
  /\ all_sgf_files' = {}
  /\ new_sgfs_files' = {}
  /\ new_sgf_files' = {}
  /\ last' = Call("clear", << >>, FALSE, "ok")
  /\ lastfold' = {}
  /\ foldlog' = {}
  /\ cleared' = {scans.calls[n] : n \in 1..Len(scans.calls)}
  /\ scans' = [pure |-> TRUE, calls |-> << >>]
  /\ ncalls' = ncalls + 1
  /\ UNCHANGED <<matrix, warning>>

\* clear as it would be without lines 76-77
clear_keeps_tracked ==
  /\ ncalls < MaxCalls
  /\ results' = << >>
  /\ new_sgfs_files' = {}
  /\ new_sgf_files' = {}
  /\ warning' = FALSE
  /\ last' = Call("clear", << >>, FALSE, "ok")
  /\ lastfold' = {}
  /\ foldlog' = {}
  /\ cleared' = {scans.calls[n] : n \in 1..Len(scans.calls)}
  /\ scans' = [pure |-> TRUE, calls |-> << >>]
  /\ ncalls' = ncalls + 1
  /\ UNCHANGED <<matrix, all_sgfs_files, all_sgf_files>>

clear ==
  /\ ncalls < MaxCalls
  /\ results' = << >>
  /\ all_sgfs_files' = {}
  /\ all_sgf_files' = {}
  /\ new_sgfs_files' = {}
  /\ new_sgf_files' = {}
  /\ warning' = FALSE
  /\ last' = Call("clear", << >>, FALSE, "ok")
  /\ lastfold' = {}
  /\ foldlog' = {}
  /\ cleared' = {scans.calls[n] : n \in 1..Len(scans.calls)}
  /\ scans' = [pure |-> TRUE, calls |-> << >>]
  /\ ncalls' = ncalls + 1
  /\ UNCHANGED matrix

print_game_results ==
  /\ ncalls < MaxCalls
  /\ matrix' = IF pla_names(results) # {} /\ ~_build_result_matrix(results).raised
               THEN _build_result_matrix(results).value
               ELSE matrix
  /\ last' = Call("print_game_results", << >>, FALSE, PrintOutcome(results))
  /\ lastfold' = {}
  /\ scans' = [scans EXCEPT !.pure = FALSE]
  /\ ncalls' = ncalls + 1
  /\ UNCHANGED <<obj, foldlog, cleared>>

print_elos ==
  /\ ncalls < MaxCalls
  /\ \E outcome \in _estimate_elo(results) :
       last' = Call("print_elos", << >>, FALSE, outcome)
  /\ lastfold' = {}
  /\ scans' = [scans EXCEPT !.pure = FALSE]
  /\ ncalls' = ncalls + 1
  /\ UNCHANGED <<obj, matrix, foldlog, cleared>>

Next == add_games \/ add_a_game_file \/ clear \/ print_game_results \/ print_elos

Spec == Init /\ [][Next]_vars

\* ------------------------------------------------------------------- claims
Players == {"Alice", "Bob", "Carol"}
Tracked == all_sgfs_files \cup all_sgf_files
Ingestions == {"add_games", "add_a_game_file"}

\* the records of a file, as (file, line) pairs
RecordsOf(f) == {<<f, i>> : i \in 1..Len(content(f))}

\* win + lost + draw of a key, zero for a key the table does not hold
Total(res, key) ==
  IF key \in DOMAIN res THEN res[key].win + res[key].lost + res[key].draw ELSE 0

\* number of records of the tracked files with black b and white w
Played(b, w) ==
  Cardinality({x \in UNION {RecordsOf(f) : f \in Tracked} :
                 content(x[1])[x[2]].pb = b /\ content(x[1])[x[2]].pw = w})

NoUnparseableTracked ==
  \A f \in Tracked : \A i \in 1..Len(content(f)) : content(f)[i].ok

\* C1: when no tracked file holds an unparseable record, every record of every
\* tracked file has been folded exactly once: for every ordered pair (black,
\* white), win + lost + draw is the number of records of the tracked files
\* with that colour assignment.
C1_ExactlyOnce ==
  NoUnparseableTracked =>
    \A b \in Players, w \in Players : Total(results, <<b, w>>) = Played(b, w)

\* the last call submitted a path that was tracked already: a file that had
\* been added, or an existing directory all of whose game files had been found
Reingested ==
  \/ /\ last'.op = "add_a_game_file"
     /\ last'.arg \in Tracked
  \/ /\ last'.op = "add_games"
     /\ exists(last'.arg)
     /\ {f \in Files(last'.arg, last'.sub) : Extension(f) \in {SGF, SGFS}} # {}
     /\ {f \in Files(last'.arg, last'.sub) : Extension(f) \in {SGF, SGFS}} \subseteq Tracked

\* C2: ingesting a path that is already tracked changes the number of tracked
\* files by zero and leaves the pairwise table unchanged.
C2_Idempotent ==
  [][Reingested =>
       /\ Cardinality(Tracked') = Cardinality(Tracked)
       /\ results' = results]_vars

\* the last call was rejected: a directory that does not exist, a file that
\* does not exist, or an extension that is neither sgf nor sgfs
Rejected ==
  \/ /\ last'.op = "add_games"
     /\ ~exists(last'.arg)
  \/ /\ last'.op = "add_a_game_file"
     /\ ~isfile(last'.arg) \/ Extension(last'.arg) \notin {SGF, SGFS}

\* C3: a rejected ingestion call leaves both tracked sets, the table and the
\* warning flag as they were.
C3_RejectedNoChange ==
  [][Rejected =>
       /\ all_sgfs_files' = all_sgfs_files
       /\ all_sgf_files' = all_sgf_files
       /\ results' = results
       /\ warning' = warning]_vars

\* the game files an add_games call c = <<directory, search_subdir>> finds
Found(c, ext) == {f \in Files(c[1], c[2]) : Extension(f) = ext}

\* the one add_games call made since the last clear names a directory that
\* had been scanned before that clear
Reingest ==
  /\ scans.pure
  /\ Len(scans.calls) = 1
  /\ scans.calls[1] \in cleared

\* C4: clear empties the table, both tracked sets, the pending-new sets and the
\* warning flag together, and an add_games of a previously scanned directory
\* right after it finds all the game files of the directory new and leaves the
\* instance as the same add_games leaves a freshly constructed one.
C4_ResetConsistent ==
  /\ last.op = "clear" =>
       /\ results = << >>
       /\ all_sgfs_files = {} /\ all_sgf_files = {}
       /\ new_sgfs_files = {} /\ new_sgf_files = {}
       /\ warning = FALSE
  /\ Reingest =>
       /\ new_sgfs_files = Found(scans.calls[1], SGFS)
       /\ new_sgf_files = Found(scans.calls[1], SGF)
       /\ Self \in {r.st : r \in AddGames(Fresh, scans.calls[1][1], scans.calls[1][2])}

C4_Witness ==
  /\ Reingest
  /\ results # << >>
  /\ new_sgfs_files # {} /\ new_sgf_files # {}

\* some pair has games in one colour orientation only
OneOrientationOnly(res) ==
  \E a, b \in pla_names(res) :
    a # b /\ <<a, b>> \in DOMAIN res /\ <<b, a>> \notin DOMAIN res

\* every pair of distinct players has games in at least one orientation
EveryPairPlayed(res) ==
  \A a, b \in pla_names(res) :
    a # b => <<a, b>> \in DOMAIN res \/ <<b, a>> \in DOMAIN res

\* every pair of distinct players has games in both orientations
BothOrientations(res) ==
  \A a, b \in pla_names(res) : a # b => <<a, b>> \in DOMAIN res

\* the record of a key, the zero record for a key the table does not hold
RecordOrZero(res, key) ==
  IF key \in DOMAIN res THEN res[key] ELSE [win |-> 0, lost |-> 0, draw |-> 0]

\* twice win(i,j) + lost(j,i) + 0.5 * (draw(i,j) + draw(j,i))
TwiceWins(res, i, j) ==
  2 * RecordOrZero(res, <<i, j>>).win + 2 * RecordOrZero(res, <<j, i>>).lost
    + RecordOrZero(res, <<i, j>>).draw + RecordOrZero(res, <<j, i>>).draw

\* C5: when the table holds (A,B) but not (B,A), and no pair is absent in both
\* orientations, building the win matrix does not fail and the missing
\* orientation counts as a zero record.
C5_MissingOrientationIsZero ==
  (/\ last.op = "print_game_results"
   /\ OneOrientationOnly(results)
   /\ EveryPairPlayed(results)) =>
    /\ last.outcome # "KeyError"
    /\ DOMAIN matrix = pla_names(results) \X pla_names(results)
    /\ \A i, j \in pla_names(results) :
         i # j => matrix[<<i, j>>] = TwiceWins(results, i, j)

\* C6: when both orientations of every pair of distinct players are present,
\* the matrix is square over the player names, its diagonal is 0 and entry
\* (i,j) is win(i,j) + lost(j,i) + 0.5 * (draw(i,j) + draw(j,i)) (doubled here).
C6_WinMatrixFormula ==
  (/\ last.op = "print_game_results"
   /\ results # << >>
   /\ BothOrientations(results)) =>
    /\ DOMAIN matrix = pla_names(results) \X pla_names(results)
    /\ \A i, j \in pla_names(results) :
         matrix[<<i, j>>] = IF i = j THEN 0 ELSE TwiceWins(results, i, j)

C6_Witness ==
  /\ last.op = "print_game_results"
  /\ BothOrientations(results)
  /\ pla_names(results) = Players
  /\ \E k \in DOMAIN results : results[k].draw > 0

\* C7: in a win matrix that was built, M[i][j] + M[j][i] is the number of games
\* between i and j in both colour orientations (both sides doubled here).
C7_MatrixSymmetry ==
  (/\ last.op = "print_game_results"
   /\ results # << >>
   /\ last.outcome # "KeyError") =>
    \A i, j \in pla_names(results) :
      i # j => matrix[<<i, j>>] + matrix[<<j, i>>]
                 = 2 * (Total(results, <<i, j>>) + Total(results, <<j, i>>))

C7_Witness ==
  /\ last.op = "print_game_results"
  /\ last.outcome = "ok"
  /\ \E i, j \in pla_names(results) :
       /\ matrix[<<i, j>>] # matrix[<<j, i>>]
       /\ results[<<i, j>>].win # results[<<i, j>>].lost

\* the record x = (file, line) has a handicap or a komi outside [5.5, 7.5]
NonStandard(x) ==
  \/ content(x[1])[x[2]].handicap # NoHandicap
  \/ content(x[1])[x[2]].komi \notin 55..75

\* C8: a call that folds a game with a handicap or a komi outside [5.5, 7.5]
\* leaves the warning flag set; a call that folds only games without handicap
\* and with komi in [5.5, 7.5] does not set it; once set the flag stays set
\* through every call but clear.
C8_StickyWarning ==
  [][/\ (\E x \in lastfold' : NonStandard(x)) => warning'
     /\ (~warning /\ \A x \in lastfold' : ~NonStandard(x)) => ~warning'
     /\ (warning /\ last'.op # "clear") => warning']_vars

C8_Witness ==
  /\ warning
  /\ \E x \in foldlog : content(x[1])[x[2]].komi = 50
  /\ \E x \in lastfold : content(x[1])[x[2]].komi = 65
  /\ \A x \in lastfold : ~NonStandard(x)

\* C9: after an ingestion call every parseable record of every file of the
\* sets the call went through has been folded by it, whether or not another
\* record failed to parse.
C9_ParseFailureContinues ==
  last.op \in Ingestions =>
    \A f \in new_sgfs_files \cup new_sgf_files :
      \A i \in 1..Len(content(f)) : content(f)[i].ok => <<f, i>> \in lastfold

\* the orders in which n calls can be made
Orders(n) == {p \in [1..n -> 1..n] : \A i, j \in 1..n : i # j => p[i] # p[j]}

\* the instances a sequence of add_games calls can leave, from the instances S
RECURSIVE Replay(_, _)
Replay(S, calls) ==
  IF calls = << >> THEN S
  ELSE Replay(UNION {{r.st : r \in AddGames(st, Head(calls)[1], Head(calls)[2])} : st \in S},
              Tail(calls))

\* the table and the tracked sets of an instance
Final(st) ==
  [results |-> st.results,
   all_sgfs_files |-> st.all_sgfs_files, all_sgf_files |-> st.all_sgf_files]

\* C10: when only add_games calls on existing directories have been made since
\* the instance was empty, the same calls made in any other order yield the
\* same table and the same tracked sets.
C10_ScanOrderCommutes ==
  (scans.pure /\ scans.calls # << >>) =>
    \A p \in Orders(Len(scans.calls)) :
      Final(Self) \in
        {Final(st) : st \in Replay({Fresh}, [i \in 1..Len(scans.calls) |-> scans.calls[p[i]]])}

\* some ordered pair of distinct players has no recorded game
UnplayedPair(res) ==
  \E a, b \in pla_names(res) : a # b /\ Total(res, <<a, b>>) = 0

C12_EmptyReportsComplete ==
  (last.op \in {"print_game_results", "print_elos"} /\ results = << >>) =>
    last.outcome = "ok"

\* some pair of distinct players has no entry in either orientation
AbsentPair(res) ==
  \E a, b \in pla_names(res) :
    a # b /\ <<a, b>> \notin DOMAIN res /\ <<b, a>> \notin DOMAIN res

\* C13: building the win matrix raises exactly when some pair of distinct
\* players has no table entry in either orientation.
C13_RaisesIffPairAbsent ==
  (last.op = "print_game_results" /\ results # << >>) =>
    (last.outcome = "KeyError" <=> AbsentPair(results))

\* the records of the file system that parse
Parseable ==
  {x \in UNION {RecordsOf(f) : f \in InputFiles} : content(x[1])[x[2]].ok}

\* the record a fold of game leaves under its key, from the record before
Counted(before, game) ==
  CASE game.winner = "b" -> [before EXCEPT !.win = @ + 1]
    [] game.winner = "w" -> [before EXCEPT !.lost = @ + 1]
    [] OTHER -> [before EXCEPT !.draw = @ + 1]

\* table after is table before with the one game folded in
FoldedInto(before, after, game) ==
  LET key == <<game.pb, game.pw>>
  IN  /\ DOMAIN after = DOMAIN before \cup {key}
      /\ after[key] = Counted(RecordOrZero(before, key), game)
      /\ \A k \in DOMAIN before \ {key} : after[k] = before[k]

\* C14: folding one parsed game with players (black, white) creates the record
\* of key (black, white) if absent and adds 1 to exactly one of its counters
\* (win for winner black, lost for winner white, draw otherwise); every other
\* key, the reverse key included, and the tracked sets are unchanged. Stated
\* of a fold into any reachable instance, and of every call that folds one game.
C14_FoldEffectAndFrame ==
  /\ [](\A x \in Parseable :
         LET after == _add_a_single_sgf_string(Run(Self), x[1], x[2]).st
         IN  /\ FoldedInto(results, after.results, content(x[1])[x[2]])
             /\ after.all_sgfs_files = all_sgfs_files
             /\ after.all_sgf_files = all_sgf_files
             /\ after.new_sgfs_files = new_sgfs_files
             /\ after.new_sgf_files = new_sgf_files)
  /\ [][\A x \in Parseable :
          lastfold' = {x} => FoldedInto(results, results', content(x[1])[x[2]])]_vars

C14_Witness ==
  /\ lastfold = {<<FileC, 1>>}
  /\ <<"Alice", "Bob">> \in DOMAIN results
  /\ <<"Bob", "Alice">> \in DOMAIN results
  /\ results[<<"Bob", "Alice">>] = [win |-> 0, lost |-> 1, draw |-> 0]

\* what follows the last "/" of a path: the name of the file
Basename(path) ==
  LET slashes == {i \in 1..Len(path) : path[i] = "/"}
  IN  IF slashes = {} THEN path
      ELSE SubSeq(path, (CHOOSE i \in slashes : \A j \in slashes : j <= i) + 1, Len(path))

\* the lower-cased extension of a path: what follows the last "." of the name
\* of the file, nothing for a name without "."
LowerExt(path) ==
  LET name == Basename(path)
      dots == {i \in 1..Len(name) : name[i] = "."}
      ext == IF dots = {} THEN << >>
             ELSE SubSeq(name, (CHOOSE i \in dots : \A j \in dots : j <= i) + 1, Len(name))
  IN  [i \in 1..Len(ext) |-> IF ext[i] = "S" THEN "s"
                              ELSE IF ext[i] = "G" THEN "g"
                              ELSE IF ext[i] = "F" THEN "f" ELSE ext[i]]

\* C15: the batch set and the single set are disjoint, a path is in the batch
\* set only with lower-cased extension sgfs and in the single set only with
\* lower-cased extension sgf, and re-adding a tracked path leaves both sets
\* unchanged. Stated of the sets every call leaves.
C15_TrackedPartition ==
  [][/\ all_sgfs_files' \cap all_sgf_files' = {}
     /\ \A f \in all_sgfs_files' : LowerExt(f) = <<"s", "g", "f", "s">>
     /\ \A f \in all_sgf_files' : LowerExt(f) = <<"s", "g", "f">>
     /\ (last'.op = "add_a_game_file" /\ last'.arg \in Tracked) =>
          (all_sgfs_files' = all_sgfs_files /\ all_sgf_files' = all_sgf_files)]_vars

\* C16: across a call other than clear both tracked sets and the key set of
\* the table only grow and no counter decreases; clear empties the table and
\* both tracked sets in one step.
C16_MonotonicGrowth ==
  [][/\ last'.op # "clear" =>
          /\ all_sgfs_files \subseteq all_sgfs_files'
          /\ all_sgf_files \subseteq all_sgf_files'
          /\ DOMAIN results \subseteq DOMAIN results'
          /\ \A k \in DOMAIN results :
               /\ results[k].win <= results'[k].win
               /\ results[k].lost <= results'[k].lost
               /\ results[k].draw <= results'[k].draw
     /\ last'.op = "clear" =>
          /\ results' = << >>
          /\ all_sgfs_files' = {} /\ all_sgf_files' = {}]_vars

C16_Witness ==
  /\ last.op = "add_games"
  /\ last.outcome = "ok"
  /\ lastfold # {}
  /\ foldlog # lastfold
  /\ Cardinality(Tracked) >= 4

\* C17: a file submitted under a second spelling of its path is not tracked a
\* second time and none of its games is folded again.
C17_TrackedByAbsolutePath ==
  [][(/\ last'.op = "add_a_game_file"
      /\ \E q \in Tracked : normpath(q) = normpath(last'.arg)) =>
       /\ Tracked' = Tracked
       /\ \A x \in lastfold' : normpath(x[1]) # normpath(last'.arg)]_vars

\* C18: every key the table holds has win + lost + draw >= 1, and the division
\* of _estimate_elo never divides by zero.
C18_NoZeroRecord ==
  /\ \A k \in DOMAIN results :
       results[k].win + results[k].lost + results[k].draw >= 1
  /\ last.op = "print_elos" => last.outcome \in {"ok", "KeyError"}

C18_Witness ==
  /\ last.op = "print_elos"
  /\ last.outcome = "ok"
  /\ \E k \in DOMAIN results :
       results[k] = [win |-> 0, lost |-> 0, draw |-> 1]

\* C19: the warning flag is set only if a game folded since __init__ or the
\* last clear had a handicap or a komi below 5.5 or above 7.5; a call that
\* folds no game and a rejected call never set it.
C19_NoSpuriousWarning ==
  /\ [](warning => \E x \in foldlog : NonStandard(x))
  /\ [][(~warning /\ (lastfold' = {} \/ Rejected)) => ~warning']_vars

C19_Witness ==
  /\ ~warning
  /\ last.op = "add_games"
  /\ last.outcome = "missing"
  /\ \E x \in foldlog : content(x[1])[x[2]].komi = 55
  /\ \E x \in foldlog : content(x[1])[x[2]].komi = 75
====
